---- MODULE Spec2Model ----
(***************************************************************************)
(* A model of exercise-01/agent.py: the TTL cache (InMemoryTTLCache), the  *)
(* LLM client's retry loop (LLMClient.chat), the weather client            *)
(* (WeatherClient.fetch) and the orchestrator (WeatherAgent.answer).       *)
(*                                                                         *)
(* Python strings are sequences of one-character strings, so that          *)
(* str.strip and the f-string of _cache_key are computed, not assumed.     *)
(* Python values are tagged records [t |-> <type>, v |-> <payload>].       *)
(***************************************************************************)
EXTENDS Integers, Sequences, FiniteSets, TLC

\* ------------------------------------------------------------------ bounds

\* The clock runs over 0..MaxTime.
MaxTime == 2

\* ------------------------------------------------------------ Python values

None == [t |-> "None"]

Str(s) == [t |-> "str", v |-> s]

Num(n) == [t |-> "int", v |-> n]

List(xs) == [t |-> "list", v |-> xs]

Dict(f) == [t |-> "dict", v |-> f]

Tuple(xs) == [t |-> "tuple", v |-> xs]

\* Python truthiness (bool(x)), as `if not hit`, `if cached`, `city or ""`
\* and `if not city` use it.
Truthy(x) ==
    CASE x.t = "None" -> FALSE
      [] x.t = "str" -> x.v # <<>>
      [] x.t = "int" -> x.v # 0
      [] x.t = "list" -> x.v # <<>>
      [] x.t = "tuple" -> x.v # <<>>
      [] x.t = "dict" -> DOMAIN x.v # {}

\* The characters str.strip() removes (a part of Python's whitespace set).
Whitespace == {" ", "\t", "\n"}

RECURSIVE LStrip(_)
LStrip(s) ==
    IF s # <<>> /\ Head(s) \in Whitespace THEN LStrip(Tail(s)) ELSE s

RECURSIVE RStrip(_)
RStrip(s) ==
    IF s # <<>> /\ s[Len(s)] \in Whitespace
    THEN RStrip(SubSeq(s, 1, Len(s) - 1))
    ELSE s

\* str.strip(): leading and trailing whitespace removed.
Strip(s) == RStrip(LStrip(s))

Digit(d) == <<"0", "1", "2", "3", "4", "5", "6", "7", "8", "9">>[d + 1]

RECURSIVE IntToStr(_)
IntToStr(n) ==
    IF n < 0 THEN <<"-">> \o IntToStr(0 - n)
    ELSE IF n < 10 THEN <<Digit(n)>>
    ELSE IntToStr(n \div 10) \o <<Digit(n % 10)>>

\* str(x) of a decoded JSON value.
PyStr(x) ==
    CASE x.t = "str" -> x.v
      [] x.t = "None" -> <<"N", "o", "n", "e">>
      [] x.t = "int" -> IntToStr(x.v)
      [] x.t = "list" -> <<"[", "]">>
      [] x.t = "dict" -> <<"{", "}">>

\* The result of evaluating an expression: a value, or a raised exception.
Ok(x) == [ok |-> TRUE, v |-> x]

Raise(e) == [ok |-> FALSE, exc |-> e]

\* x[name] for a string key.
GetItemKey(x, name) ==
    CASE x.t = "dict" ->
           IF name \in DOMAIN x.v THEN Ok(x.v[name]) ELSE Raise("KeyError")
      [] OTHER -> Raise("TypeError")

\* x.get(name, default): dict.get; any other value has no attribute `get`.
DictGet(x, name, default) ==
    CASE x.t = "dict" ->
           Ok(IF name \in DOMAIN x.v THEN x.v[name] ELSE default)
      [] OTHER -> Raise("AttributeError")

\* x[i] for an integer index (0-based).
GetItemIdx(x, i) ==
    CASE x.t = "list" ->
           IF i + 1 \in DOMAIN x.v THEN Ok(x.v[i + 1]) ELSE Raise("IndexError")
      [] x.t = "str" ->
           IF i + 1 \in DOMAIN x.v THEN Ok(Str(<<x.v[i + 1]>>)) ELSE Raise("IndexError")
      [] x.t = "dict" -> Raise("KeyError")
      [] OTHER -> Raise("TypeError")

\* ---------------------------------------------------------------- Config

\* Config: ttl_s (CACHE_TTL_S), max_retries (LLM_MAX_RETRIES) and backoff_s
\* (LLM_BACKOFF_S, in tenths of a second) are read from the environment.
Configs ==
    [ttl_s : {1, 2}, max_retries : {0 - 1, 0, 1, 3}, backoff_s : {3}]

\* The raw `city` arguments answer() is called with: None, the empty string,
\* whitespace only, a name, a name in whitespace, a name holding the separator.
Cities ==
    { None, Str(<<>>), Str(<<" ", "\t">>), Str(<<"a">>),
      Str(<<" ", "a", "\n">>), Str(<<"a", ":">>) }

Metric == <<"m", "e", "t", "r", "i", "c">>

\* The `units` arguments: units is an unvalidated str (agent.py:196).
Units == { Metric, <<":">> \o Metric }

\* The (city, units) arguments of the answer() calls.
Requests ==
    { <<c, Metric>> : c \in Cities } \cup { <<Str(<<"a">>), <<":">> \o Metric>> }

\* ------------------------------------------------------------- upstreams

\* What the LLM endpoint can answer to one requests.post: a transport error,
\* a non-2xx status, a body that is not JSON, or a decoded JSON body.
Completion(content) ==
    Dict([choices |-> List(<<Dict([message |-> Dict([content |-> content])])>>)])

LLMBodies ==
    { Completion(Str(<<"h", "i">>)),
      Completion(Str(<<>>)),
      Completion(None),
      List(<<>>),
      Dict([error |-> Str(<<"x">>)]),
      Dict([choices |-> List(<<>>)]),
      Dict([choices |-> List(<<Dict([index |-> Num(0)])>>)]),
      Dict([choices |-> List(<<Dict([message |-> Dict([role |-> Str(<<"a">>)])])>>)]) }

LLMResponses ==
    { [kind |-> k] : k \in {"Timeout", "ConnectionError", "HTTPError", "BadJSON"} }
      \cup { [kind |-> "json", data |-> d] : d \in LLMBodies }

\* What the weather endpoint can answer to one requests.get.
WeatherBodies ==
    { Dict([temp |-> Num(18), desc |-> Str(<<"c", "l", "e", "a", "r">>)]),
      Dict([temp |-> None, desc |-> Str(<<"c", "l", "e", "a", "r">>)]),
      Dict([temp |-> Num(18)]),
      Dict([desc |-> Str(<<"c", "l", "e", "a", "r">>)]),
      List(<<>>) }

WeatherResponses ==
    { [kind |-> k] : k \in {"Timeout", "ConnectionError", "HTTPError", "BadJSON"} }
      \cup { [kind |-> "json", data |-> d] : d \in WeatherBodies }

\* ------------------------------------------------------- pure functions

\* InMemoryTTLCache.get, line 93: self._store.get(key).
StoreGet(st, k) == IF k \in DOMAIN st THEN Tuple(st[k]) ELSE None

\* Mutant of GetFresh: the entry is still served at age ttl.
GetFresh_Inclusive(h, t, ttl) ==
    IF t - h.v[1] <= ttl THEN h.v[2] ELSE None

\* InMemoryTTLCache.get, lines 96-99, with t the value of self._now().
GetFresh(h, t, ttl) ==
    LET ts0 == h.v[1]
        val == h.v[2]
    IN  IF t - ts0 < ttl THEN val ELSE None

\* InMemoryTTLCache.get as one call at clock time t.
CacheGet(st, k, t, ttl) ==
    LET h == StoreGet(st, k)
    IN  IF ~Truthy(h) THEN None ELSE GetFresh(h, t, ttl)

\* Mutant of CacheSet: an existing entry is kept (dict.setdefault).
CacheSet_KeepsExisting(st, k, t, val) ==
    [x \in DOMAIN st \cup {k} |-> IF x \in DOMAIN st THEN st[x] ELSE <<t, val>>]

\* InMemoryTTLCache.set, line 108: self._store[key] = (t, val).
CacheSet(st, k, t, val) ==
    [x \in DOMAIN st \cup {k} |-> IF x = k THEN <<t, val>> ELSE st[x]]

\* Mutant of CacheKey: the units are left out of the key.
CacheKey_NoUnits(c, u) == c

\* WeatherAgent._cache_key: f"{city}:{units}".
CacheKey(c, u) == c \o <<":">> \o u

\* Mutant of NormalizeCity: the city is not stripped.
NormalizeCity_NoStrip(c) == (IF Truthy(c) THEN c ELSE Str(<<>>)).v

\* answer(), line 281: (city or "").strip().
NormalizeCity(c) == Strip((IF Truthy(c) THEN c ELSE Str(<<>>)).v)

FixedMsg == <<"Please provide a valid city.">>

\* chat(), line 159: data["choices"][0]["message"]["content"].
ChatContent(data) ==
    LET a == GetItemKey(data, "choices")
    IN  IF ~a.ok THEN a
        ELSE LET b == GetItemIdx(a.v, 0)
             IN  IF ~b.ok THEN b
                 ELSE LET c == GetItemKey(b.v, "message")
                      IN  IF ~c.ok THEN c ELSE GetItemKey(c.v, "content")

\* chat(), lines 151-160: the body of the try, for one response of the
\* endpoint: the text returned, or the exception raised.
ChatTry(r) ==
    CASE r.kind \in {"Timeout", "ConnectionError", "HTTPError"} -> Raise(r.kind)
      [] r.kind = "BadJSON" -> Raise("ValueError")
      [] r.kind = "json" ->
           LET c == ChatContent(r.data)
           IN  IF c.ok THEN Ok(PyStr(c.v)) ELSE c

\* Mutant of Transient: the loop catches requests' base class
\* RequestException, which HTTPError derives from.
Transient_RequestException(e) ==
    e \in {"Timeout", "ConnectionError", "HTTPError", "TooManyRedirects"}

\* Mutant of Transient: a non-2xx status is retried too.
Transient_WithStatus(e) == e \in {"Timeout", "ConnectionError", "HTTPError"}

\* chat(), line 161: the exceptions the loop retries.
Transient(e) == e \in {"Timeout", "ConnectionError"}

\* Mutant of Backoff: the same delay after every attempt.
Backoff_Constant(c, n) == c.backoff_s

\* chat(), line 163: the argument of time.sleep.
Backoff(c, n) == c.backoff_s * n

\* Mutant of InRange: range(1, max_retries + 2), one attempt more.
InRange_OneMore(c, n) == n <= c.max_retries + 1

\* Mutant of InRange: range(1, max_retries), one attempt short.
InRange_OneShort(c, n) == n < c.max_retries

\* chat(), line 149: range(1, max_retries + 1) still has `n`.
InRange(c, n) == n <= c.max_retries

\* Mutant of FetchTry: a failed fetch is replaced by placeholder data.
FetchTry_Placeholder(r) ==
    IF r.kind = "json" /\ r.data.t = "dict" /\ "temp" \in DOMAIN r.data.v
         /\ "desc" \in DOMAIN r.data.v
    THEN Ok(r.data)
    ELSE Ok(Dict([temp |-> Str(<<"?", "?">>), desc |-> Str(<<>>)]))

\* fetch(), lines 205-223, for one response of the endpoint.
FetchTry(r) ==
    CASE r.kind \in {"Timeout", "ConnectionError", "HTTPError"} -> Raise(r.kind)
      [] r.kind = "BadJSON" -> Raise("ValueError")
      [] r.kind = "json" ->
           IF r.data.t # "dict" \/ "temp" \notin DOMAIN r.data.v
                \/ "desc" \notin DOMAIN r.data.v
           THEN Raise("ValueError")
           ELSE Ok(r.data)

\* answer(), lines 292-297: the prompt.
Prompt(c, u, wd) ==
    <<"Give a friendly 1-2 sentence weather update.\nCity: ">> \o c
      \o <<"\nTemp (°">> \o (IF u = Metric THEN <<"C">> ELSE <<"F">>) \o <<"): ">>
      \o PyStr(wd.v["temp"]) \o <<"\nDescription: ">> \o PyStr(wd.v["desc"])
      \o <<"\n">>

\* ------------------------------------------------------------------ state

Threads == {1, 2}

VARIABLES
    cfg,        \* Config (frozen dataclass)
    now,        \* what the cache's clock now_fn() returns
    store,      \* InMemoryTTLCache._store: key -> (ts, val)
    th,         \* per thread: its frame in answer(): pc and locals
    arg,        \* per thread: the arguments of its current or last answer()
    result,     \* per thread: how its last answer() ended
    log,        \* per thread: the collaborator calls of its current or last answer()
    calls,      \* per thread: the answer() calls it may still start:
                \* "many", "two", "one" or "none"
    storeAtCall,\* per thread: the store when its current or last answer() began
    prev,       \* per thread: its answer() call before the current or last one
    probe,      \* what the cache-only driver has called
    response    \* per thread: the handler() call it runs, and its outcome

vars ==
    << cfg, now, store, th, arg, result, log, calls, storeAtCall, prev, probe,
                    response >>

NoResult == [kind |-> "none"]

Return(s) == [kind |-> "return", v |-> s]

Raised(type, from) == [kind |-> "raise", exc |-> [type |-> type, from |-> from]]

NoArg == [city |-> None, units |-> <<>>]

NoPrev == [kind |-> "none"]

\* The cache-only driver: its last call, and for each key the arguments and
\* the clock time of the last set() on it and of the set() before that one
\* (time -1: there was none).
NoProbe == [last |-> [op |-> "none"], sets |-> << >>]

\* No handler() call has begun.
NoResponse == [kind |-> "none"]

\* A thread outside answer().
Idle ==
    [pc |-> "idle", city |-> <<>>, key |-> <<>>, hit |-> None, ts |-> 0,
     w |-> None, attempt |-> 0, text |-> <<>>]

\* ---------------------------------------------------------------- actions

\* What is remembered of a completed call when the next one starts: a call
\* that fetched, generated and stored a text is remembered with its
\* arguments, its text and the clock time of its cache.set; a call that
\* returned a cached text, with its arguments, the text and the timestamp of
\* the entry it read.
Summary(a, r, l) ==
    IF r.kind = "return" /\ l # <<>> /\ l[Len(l)].op = "cache.set"
    THEN [kind |-> "stored", arg |-> a, text |-> r.v, t |-> l[Len(l)].t]
    ELSE IF r.kind = "return" /\ Len(l) = 1
    THEN [kind |-> "hit", arg |-> a, text |-> r.v, t |-> l[1].hit.v[1]]
    ELSE NoPrev

\* The call ends: answer() returns or raises `r`.
Finish(p, r) ==
    /\ th' = [th EXCEPT ![p] = Idle]
    /\ result' = [result EXCEPT ![p] = r]

\* Mutant of Propagate: a failed call caches a placeholder answer.
Propagate_CachesPlaceholder(p, e, from) ==
    /\ th' = [th EXCEPT ![p] = Idle]
    /\ result' = [result EXCEPT ![p] = Raised(e, from)]
    /\ store' = CacheSet(store, th[p].key, now, Str(<<"?", "?">>))

\* The call ends with the exception `e` raised in `from`: answer() has no
\* handler, so the exception leaves it before line 299 and the cache is not
\* touched.
Propagate(p, e, from) ==
    /\ Finish(p, Raised(e, from))
    /\ UNCHANGED store

\* A collaborator call is recorded.
Logged(p, e) == log' = [log EXCEPT ![p] = Append(@, e)]

\* answer(), lines 281-285: normalise the city; return the fixed message for
\* an empty one, else compute the key and enter cache.get.
AnswerCall(p, c, u) ==
    /\ th[p].pc = "idle"
    /\ calls[p] # "none"
    /\ calls' = [calls EXCEPT ![p] =
                   CASE @ = "two" -> "one" [] @ = "one" -> "none" [] OTHER -> @]
    /\ arg' = [arg EXCEPT ![p] = [city |-> c, units |-> u]]
    /\ storeAtCall' = [storeAtCall EXCEPT ![p] = store]
    /\ prev' = [prev EXCEPT ![p] = Summary(arg[p], result[p], log[p])]
    /\ log' = [log EXCEPT ![p] = <<>>]
    /\ LET s == NormalizeCity(c)
       IN  IF ~Truthy(Str(s))
           THEN Finish(p, Return(FixedMsg))
           ELSE /\ th' = [th EXCEPT ![p] =
                            [Idle EXCEPT !.pc = "get", !.city = s,
                                         !.key = CacheKey(s, u)]]
                /\ result' = [result EXCEPT ![p] = NoResult]
    /\ UNCHANGED << cfg, now, store, probe, response >>

\* get(), lines 93-95: look the key up; no entry is a miss (answer() line 287
\* then goes on to the weather fetch).
CacheGetLookup(p) ==
    /\ th[p].pc = "get"
    /\ LET h == StoreGet(store, th[p].key)
       IN  IF ~Truthy(h)
           THEN /\ th' = [th EXCEPT ![p].pc = "fetch"]
                /\ Logged(p, [op |-> "cache.get", key |-> th[p].key, hit |-> h,
                              t |-> 0 - 1, ret |-> None])
           ELSE /\ th' = [th EXCEPT ![p].pc = "get_check", ![p].hit = h]
                /\ UNCHANGED log
    /\ UNCHANGED << cfg, now, store, arg, result, calls, storeAtCall, prev, probe,
                    response >>

\* Mutant of CacheGetCheck: a hit renews the entry's timestamp (sliding TTL).
CacheGetCheck_Refresh(p) ==
    /\ th[p].pc = "get_check"
    /\ LET cached == GetFresh(th[p].hit, now, cfg.ttl_s)
       IN  /\ Logged(p, [op |-> "cache.get", key |-> th[p].key, hit |-> th[p].hit,
                         t |-> now, ret |-> cached])
           /\ IF Truthy(cached)
              THEN /\ Finish(p, Return(cached.v))
                   /\ store' = CacheSet(store, th[p].key, now, cached)
              ELSE /\ th' = [th EXCEPT ![p].pc = "fetch", ![p].hit = None]
                   /\ UNCHANGED << result, store >>
    /\ UNCHANGED << cfg, now, arg, calls, storeAtCall, prev, probe,
                    response >>

\* get(), lines 96-99, then answer(), lines 286-289: the entry is returned if
\* fresh; answer() returns a truthy cached value and goes on otherwise.
CacheGetCheck(p) ==
    /\ th[p].pc = "get_check"
    /\ LET cached == GetFresh(th[p].hit, now, cfg.ttl_s)
       IN  /\ Logged(p, [op |-> "cache.get", key |-> th[p].key, hit |-> th[p].hit,
                         t |-> now, ret |-> cached])
           /\ IF Truthy(cached)
              THEN Finish(p, Return(cached.v))
              ELSE /\ th' = [th EXCEPT ![p].pc = "fetch", ![p].hit = None]
                   /\ UNCHANGED result
    /\ UNCHANGED << cfg, now, store, arg, calls, storeAtCall, prev >>
    /\ UNCHANGED << probe, response >>

\* answer(), lines 291-298: fetch the weather; a failure propagates; else
\* build the prompt and enter chat(), whose loop starts at attempt 1.
WeatherFetch(p, r) ==
    /\ th[p].pc = "fetch"
    /\ LET o == FetchTry(r)
       IN  IF ~o.ok
           THEN /\ Logged(p, [op |-> "weather.fetch", city |-> th[p].city,
                              units |-> arg[p].units, resp |-> r, out |-> o.exc])
                /\ Propagate(p, o.exc, "weather")
           ELSE /\ log' = [log EXCEPT ![p] = @ \o
                             << [op |-> "weather.fetch", city |-> th[p].city,
                                 units |-> arg[p].units, resp |-> r, out |-> "ok"],
                                [op |-> "llm.chat",
                                 prompt |-> Prompt(th[p].city, arg[p].units, o.v)] >>]
                /\ th' = [th EXCEPT ![p].pc = "chat", ![p].w = o.v,
                                    ![p].attempt = 1]
                /\ UNCHANGED << result, store >>
    /\ UNCHANGED << cfg, now, arg, calls, storeAtCall, prev, probe,
                    response >>

\* chat(), lines 149-173: one attempt. A transient error goes to the backoff,
\* any other exception leaves chat() and answer(), a text goes to cache.set.
ChatAttempt(p, r) ==
    /\ th[p].pc = "chat"
    /\ InRange(cfg, th[p].attempt)
    /\ LET o == ChatTry(r)
       IN  /\ Logged(p, [op |-> "llm.post", n |-> th[p].attempt, resp |-> r,
                         out |-> IF o.ok THEN "ok" ELSE o.exc])
           /\ IF o.ok
              THEN /\ th' = [th EXCEPT ![p].pc = "set", ![p].text = o.v]
                   /\ UNCHANGED << result, store >>
              ELSE IF Transient(o.exc)
              THEN /\ th' = [th EXCEPT ![p].pc = "backoff"]
                   /\ UNCHANGED << result, store >>
              ELSE Propagate(p, o.exc, "llm")
    /\ UNCHANGED << cfg, now, arg, calls, storeAtCall, prev, probe,
                    response >>

\* chat(), line 163: time.sleep(backoff_s * attempt), then the next attempt.
ChatBackoff(p) ==
    /\ th[p].pc = "backoff"
    /\ Logged(p, [op |-> "sleep", n |-> th[p].attempt,
                  d |-> Backoff(cfg, th[p].attempt)])
    /\ th' = [th EXCEPT ![p].pc = "chat", ![p].attempt = @ + 1]
    /\ UNCHANGED << cfg, now, store, arg, result, calls, storeAtCall, prev, probe,
                    response >>

\* chat(), line 175: the loop is over without a return.
ChatExhausted(p) ==
    /\ th[p].pc = "chat"
    /\ ~InRange(cfg, th[p].attempt)
    /\ Propagate(p, "RuntimeError", "llm")
    /\ UNCHANGED << cfg, now, arg, log, calls, storeAtCall, prev, probe,
                    response >>

\* set(), line 108, right-hand side: self._now() is evaluated.
CacheSetNow(p) ==
    /\ th[p].pc = "set"
    /\ th' = [th EXCEPT ![p].pc = "set_store", ![p].ts = now]
    /\ UNCHANGED << cfg, now, store, arg, result, log, calls, storeAtCall, prev >>
    /\ UNCHANGED << probe, response >>

\* Mutant of CacheSetStore: an entry with a later timestamp is not replaced.
CacheSetStore_KeepsNewer(p) ==
    /\ th[p].pc = "set_store"
    /\ store' = IF /\ th[p].key \in DOMAIN store
                   /\ store[th[p].key][1] > th[p].ts
                THEN store
                ELSE CacheSet(store, th[p].key, th[p].ts, Str(th[p].text))
    /\ Logged(p, [op |-> "cache.set", key |-> th[p].key, t |-> th[p].ts,
                  val |-> Str(th[p].text)])
    /\ Finish(p, Return(th[p].text))
    /\ UNCHANGED << cfg, now, arg, calls, storeAtCall, prev, probe,
                    response >>

\* Mutant of CacheSetStore: the text is returned without being stored.
CacheSetStore_Skipped(p) ==
    /\ th[p].pc = "set_store"
    /\ Finish(p, Return(th[p].text))
    /\ UNCHANGED << cfg, now, store, arg, log, calls, storeAtCall, prev, probe,
                    response >>

\* set(), line 108, the store; then answer(), line 300, returns the text.
CacheSetStore(p) ==
    /\ th[p].pc = "set_store"
    /\ store' = CacheSet(store, th[p].key, th[p].ts, Str(th[p].text))
    /\ Logged(p, [op |-> "cache.set", key |-> th[p].key, t |-> th[p].ts,
                  val |-> Str(th[p].text)])
    /\ Finish(p, Return(th[p].text))
    /\ UNCHANGED << cfg, now, arg, calls, storeAtCall, prev, probe,
                    response >>

\* The clock advances. The clock is read at lines 97 and 108 only, so time
\* that passes elsewhere is time that passes right before the next read.
Tick ==
    /\ now < MaxTime
    /\ \E p \in Threads : th[p].pc \in {"get_check", "set"}
    /\ now' = now + 1
    /\ UNCHANGED << cfg, store, th, arg, result, log, calls, storeAtCall, prev,
                    probe, response >>

\* The events handler() is called with: no query, an empty query, a city
\* only, a city in whitespace with units, a null city, a blank city, numeric
\* units, and a query that is not a dict.
HandlerEvents ==
    { Dict(<< >>),
      Dict([query |-> Dict(<< >>)]),
      Dict([query |-> Dict([city |-> Str(<<"a">>)])]),
      Dict([query |-> Dict([city |-> Str(<<" ", "a", "\n">>),
                            units |-> Str(Metric)])]),
      Dict([query |-> Dict([city |-> None])]),
      Dict([query |-> Dict([city |-> Str(<<" ", "\t">>)])]),
      Dict([query |-> Dict([city |-> Str(<<"a">>), units |-> Num(0)])]),
      Dict([query |-> None]) }

UpstreamError == <<"Upstream service error">>

\* Mutant of HandlerResponse: the body of a failure names its cause.
HandlerResponse_LeaksCause(r) ==
    IF r.kind = "return"
    THEN [status |-> 200, body |-> r.v]
    ELSE [status |-> 502, body |-> <<r.exc.type>>]

\* handler(), lines 328-333: the response for the outcome `r` of answer().
HandlerResponse(r) ==
    IF r.kind = "return"
    THEN [status |-> 200, body |-> r.v]
    ELSE [status |-> 502, body |-> UpstreamError]

\* handler(), lines 323-327: a new agent (with a new, empty cache) is built
\* and the arguments are read from the event, outside the try block.
HandlerBegin(p, ev) ==
    /\ th[p].pc = "idle"
    /\ calls[p] # "none"
    /\ response[p] = NoResponse
    /\ store = << >>
    /\ LET query == DictGet(ev, "query", Dict(<< >>)).v
           c == DictGet(query, "city", Str(<<>>))
           u == DictGet(query, "units", Str(Metric))
       IN  response' = [response EXCEPT ![p] =
                          IF ~c.ok
                          THEN [kind |-> "raise", exc |-> c.exc]
                          ELSE [kind |-> "calling",
                                city |-> Str(Strip(PyStr(c.v))),
                                units |-> PyStr(u.v)]]
    /\ UNCHANGED << cfg, now, store, th, arg, result, log, calls, storeAtCall,
                    prev, probe >>

\* handler(), line 329: agent.answer(city, units) is entered.
HandlerAnswer(p) ==
    /\ response[p].kind = "calling"
    /\ th[p].pc = "idle"
    /\ result[p] = NoResult
    /\ AnswerCall(p, response[p].city, response[p].units)

\* handler(), lines 330-333: answer() has returned or raised, and the
\* response is returned.
HandlerReturn(p) ==
    /\ response[p].kind = "calling"
    /\ th[p].pc = "idle"
    /\ result[p] # NoResult
    /\ response' = [response EXCEPT ![p] =
                      [kind |-> "return", v |-> HandlerResponse(result[p])]]
    /\ UNCHANGED << cfg, now, store, th, arg, result, log, calls, storeAtCall,
                    prev, probe >>

\* The cache alone, called directly under a controllable clock (now_fn).
ProbeKeys == { CacheKey(<<"a">>, Metric), <<"k">> }

ProbeValues == { None, Str(<<>>), Str(<<"h", "i">>), Num(0) }

\* cache.set(k, v) at the clock's current time.
ProbeSet(k, v) ==
    /\ store' = CacheSet(store, k, now, v)
    /\ probe' = [last |-> [op |-> "set", key |-> k, t |-> now, val |-> v],
                 sets |-> [x \in DOMAIN probe.sets \cup {k} |->
                             IF x = k
                             THEN [t |-> now, val |-> v,
                                   before |-> IF k \in DOMAIN probe.sets
                                              THEN [t |-> probe.sets[k].t,
                                                    val |-> probe.sets[k].val]
                                              ELSE [t |-> 0 - 1, val |-> None]]
                             ELSE probe.sets[x]]]
    /\ UNCHANGED << cfg, now, th, arg, result, log, calls, storeAtCall, prev,
                    response >>

\* cache.get(k) at the clock's current time.
ProbeGet(k) ==
    /\ probe' = [probe EXCEPT !.last =
                   [op |-> "get", key |-> k, t |-> now,
                    ret |-> CacheGet(store, k, now, cfg.ttl_s)]]
    /\ UNCHANGED << cfg, now, store, th, arg, result, log, calls, storeAtCall,
                    prev, response >>

\* The controllable clock is advanced.
ProbeTick ==
    /\ now < MaxTime
    /\ now' = now + 1
    /\ UNCHANGED << cfg, store, th, arg, result, log, calls, storeAtCall, prev,
                    probe, response >>

\* --------------------------------------------------------- specifications

InitWith(configs, budget) ==
    /\ cfg \in configs
    /\ now = 0
    /\ store = << >>
    /\ th = [p \in Threads |-> Idle]
    /\ arg = [p \in Threads |-> NoArg]
    /\ result = [p \in Threads |-> NoResult]
    /\ log = [p \in Threads |-> << >>]
    /\ calls = budget
    /\ storeAtCall = [p \in Threads |-> << >>]
    /\ prev = [p \in Threads |-> NoPrev]
    /\ probe = NoProbe
    /\ response = [p \in Threads |-> NoResponse]

\* One thread calls answer() again and again, one call after the other,
\* with a retry budget of at most one attempt.
Init ==
    InitWith({c \in Configs : c.max_retries <= 1},
             [p \in Threads |-> IF p = 1 THEN "many" ELSE "none"])

\* One thread calls answer() twice, starting with an empty cache, under
\* every configuration.
InitTwo ==
    InitWith(Configs, [p \in Threads |-> IF p = 1 THEN "two" ELSE "none"])

Next ==
    \/ Tick
    \/ \E p \in Threads :
         \/ \E q \in Requests : AnswerCall(p, q[1], q[2])
         \/ CacheGetLookup(p)
         \/ CacheGetCheck(p)
         \/ \E r \in WeatherResponses : WeatherFetch(p, r)
         \/ \E r \in LLMResponses : ChatAttempt(p, r)
         \/ ChatBackoff(p)
         \/ ChatExhausted(p)
         \/ CacheSetNow(p)
         \/ CacheSetStore(p)

Spec == Init /\ [][Next]_vars

SpecTwo == InitTwo /\ [][Next]_vars

\* A step of thread p inside chat(): a request, a sleep, or the raise after
\* the loop.
ChatStep(p) ==
    \/ \E r \in LLMResponses : ChatAttempt(p, r)
    \/ ChatBackoff(p)
    \/ ChatExhausted(p)

\* SpecTwo with a thread inside chat() going on: requests.post returns or
\* raises within its timeout (line 155) and time.sleep returns.
SpecTwoFair == SpecTwo /\ \A p \in Threads : WF_vars(ChatStep(p))

\* Two threads call answer() once each, at the same time, on one cache.
InitConc ==
    InitWith({c \in Configs : c.max_retries = 1}, [p \in Threads |-> "one"])

SpecConc == InitConc /\ [][Next]_vars

\* handler() is called once, with any event, under every configuration. Its
\* agent is new, so the entry looked up is never there and get() returns at
\* line 95.
InitHandler ==
    InitWith(Configs, [p \in Threads |-> IF p = 1 THEN "one" ELSE "none"])

NextHandler ==
    \/ Tick
    \/ \E p \in Threads :
         \/ \E ev \in HandlerEvents : HandlerBegin(p, ev)
         \/ HandlerAnswer(p)
         \/ CacheGetLookup(p)
         \/ \E r \in WeatherResponses : WeatherFetch(p, r)
         \/ \E r \in LLMResponses : ChatAttempt(p, r)
         \/ ChatBackoff(p)
         \/ ChatExhausted(p)
         \/ CacheSetNow(p)
         \/ CacheSetStore(p)
         \/ HandlerReturn(p)

SpecHandler == InitHandler /\ [][NextHandler]_vars

\* The cache is called directly; no answer() runs.
InitCache ==
    InitWith({c \in Configs : c.max_retries = 0}, [p \in Threads |-> "none"])

NextCache ==
    \/ \E k \in ProbeKeys, v \in ProbeValues : ProbeSet(k, v)
    \/ \E k \in ProbeKeys : ProbeGet(k)
    \/ ProbeTick

SpecCache == InitCache /\ [][NextCache]_vars

\* ------------------------------------------------------ claims: vocabulary

\* Thread p's last answer() has ended and is still on record.
Ended(p) == th[p].pc = "idle" /\ result[p] # NoResult

\* The city is None, empty or whitespace only.
IsBlank(c) == c = None \/ \A i \in DOMAIN c.v : c.v[i] \in Whitespace

\* x is s without its leading and trailing whitespace.
IsTrimOf(x, s) ==
    \E i \in 1..(Len(s) + 1), j \in 0..Len(s) :
        /\ x = SubSeq(s, i, j)
        /\ \A k \in 1..(i - 1) : s[k] \in Whitespace
        /\ \A k \in (j + 1)..Len(s) : s[k] \in Whitespace
        /\ x # <<>> => x[1] \notin Whitespace /\ x[Len(x)] \notin Whitespace

\* The string s, trimmed.
Trimmed(s) ==
    CHOOSE x \in {SubSeq(s, i, j) : i \in 1..(Len(s) + 1), j \in 0..Len(s)} :
        IsTrimOf(x, s)

\* Two argument pairs are identical after trimming the city.
SameRequest(a, b) ==
    /\ a.units = b.units
    /\ ~IsBlank(a.city) /\ ~IsBlank(b.city)
    /\ Trimmed(a.city.v) = Trimmed(b.city.v)

\* The positions of log l that hold a call of `op`.
At(l, op) == {i \in DOMAIN l : l[i].op = op}

\* ------------------------------------------------------------------ claims

\* C1: for every ttl > 0, key and value, a get(key) at clock time t' after the
\* last set(key, value), made at clock time t, returns the value when t' is in
\* [t, t + ttl) and None when t' >= t + ttl.
C1_TTLWindow ==
    probe.last.op = "get" /\ probe.last.key \in DOMAIN probe.sets =>
        LET s == probe.sets[probe.last.key]
        IN  /\ probe.last.t >= s.t
            /\ probe.last.t < s.t + cfg.ttl_s => probe.last.ret = s.val
            /\ probe.last.t >= s.t + cfg.ttl_s => probe.last.ret = None

\* A get at exactly t + ttl, after a fresh get is no longer possible, of a key
\* set to a value that is not None.
C1_Witness ==
    /\ probe.last.op = "get" /\ probe.last.key \in DOMAIN probe.sets
    /\ probe.sets[probe.last.key].val # None
    /\ probe.last.t = probe.sets[probe.last.key].t + cfg.ttl_s
    /\ probe.last.ret = None

\* C2: when an answer() call fetched, generated and stored a text, and the
\* next call has the same (city, units) after trimming and looks the cache up
\* before the TTL has elapsed, that call is a pure cache hit: its only
\* collaborator call is cache.get (no weather call, no LLM call, no cache.set)
\* and it returns the same text, for every text the LLM can return.
C2_SecondCallIsPureHit ==
    \A p \in Threads :
        ( /\ Ended(p)
          /\ prev[p].kind = "stored"
          /\ SameRequest(prev[p].arg, arg[p])
          /\ \E i \in At(log[p], "cache.get") :
                log[p][i].t - prev[p].t < cfg.ttl_s )
        => /\ Len(log[p]) = 1
           /\ log[p][1].op = "cache.get"
           /\ result[p] = Return(prev[p].text)

\* C3: answer() with a city that is empty or whitespace only returns the
\* fixed message and makes no collaborator call (no cache.get, no cache.set,
\* no weather fetch, no LLM call); the store is as it was before the call.
C3_BlankCity ==
    \A p \in Threads :
        IsBlank(arg[p].city) =>
            /\ th[p].pc = "idle"
            /\ log[p] = << >>
            /\ Ended(p) => result[p] = Return(FixedMsg) /\ store = storeAtCall[p]

\* A whitespace-only city was answered while the cache held an entry.
C3_Witness ==
    /\ Ended(1)
    /\ arg[1].city = Str(<<" ", "\t">>)
    /\ result[1] = Return(FixedMsg)
    /\ store # << >>

\* C4: when every LLM attempt of a chat() fails with a timeout or connection
\* error, the chat makes exactly the attempts numbered 1..max_retries, in
\* order, attempt n being followed by a sleep of backoff_s * n, and then
\* raises the RuntimeError of exhausted retries; no text is returned.
C4_ExhaustedRetries ==
    \A p \in Threads :
        ( /\ Ended(p)
          /\ At(log[p], "llm.chat") # {}
          /\ \A i \in At(log[p], "llm.post") :
                log[p][i].resp.kind \in {"Timeout", "ConnectionError"} )
        => LET c == CHOOSE i \in At(log[p], "llm.chat") : TRUE
               l == SubSeq(log[p], c + 1, Len(log[p]))
               m == IF cfg.max_retries > 0 THEN cfg.max_retries ELSE 0
           IN  /\ Len(l) = 2 * m
               /\ \A n \in 1..m :
                     /\ l[2 * n - 1].op = "llm.post" /\ l[2 * n - 1].n = n
                     /\ l[2 * n].op = "sleep" /\ l[2 * n].d = cfg.backoff_s * n
               /\ result[p] = Raised("RuntimeError", "llm")

\* Three attempts failed with transient errors and the chat gave up.
C4_Witness ==
    /\ Ended(1)
    /\ cfg.max_retries = 3
    /\ Cardinality(At(log[1], "llm.post")) = 3
    /\ \A i \in At(log[1], "llm.post") :
          log[1][i].resp.kind \in {"Timeout", "ConnectionError"}
    /\ result[1] = Raised("RuntimeError", "llm")

\* The decoded body has the shape chat() expects: an object with a non-empty
\* list `choices` whose first choice has a message with a string content.
WellFormed(d) ==
    /\ d.t = "dict" /\ "choices" \in DOMAIN d.v
    /\ d.v["choices"].t = "list" /\ d.v["choices"].v # << >>
    /\ LET ch == d.v["choices"].v[1]
       IN  /\ ch.t = "dict" /\ "message" \in DOMAIN ch.v
           /\ ch.v["message"].t = "dict" /\ "content" \in DOMAIN ch.v["message"].v
           /\ ch.v["message"].v["content"].t = "str"

\* C5: an LLM attempt whose response decodes to a malformed payload ends the
\* chat on that attempt with a payload error: it is the last collaborator
\* call of the answer(), which raises; no text is returned.
C5_MalformedPayloadFails ==
    \A p \in Threads : \A i \in At(log[p], "llm.post") :
        (log[p][i].resp.kind = "json" /\ ~WellFormed(log[p][i].resp.data))
        => /\ i = Len(log[p])
           /\ Ended(p)
           /\ result[p].kind = "raise"
           /\ result[p].exc.from = "llm"
           /\ result[p].exc.type \in {"ValueError", "KeyError", "IndexError", "TypeError"}

\* C6: an answer() that ends with an exception has made no cache.set and
\* leaves the store exactly as it was when the call began.
C6_NoPartialCache ==
    \A p \in Threads :
        Ended(p) /\ result[p].kind = "raise" =>
            /\ At(log[p], "cache.set") = {}
            /\ store = storeAtCall[p]

\* The LLM retries were exhausted for a key that has an (expired) entry.
C6_Witness ==
    /\ Ended(1)
    /\ result[1] = Raised("RuntimeError", "llm")
    /\ \E i \in At(log[1], "cache.get") : log[1][i].key \in DOMAIN store

\* The response makes fetch() fail: a transport error, a non-success status,
\* a body that is not JSON, or not an object with `temp` and `desc`.
WeatherFailure(r) ==
    \/ r.kind # "json"
    \/ r.data.t # "dict"
    \/ "temp" \notin DOMAIN r.data.v
    \/ "desc" \notin DOMAIN r.data.v

\* C7: an answer() makes at most one weather call, and exactly one when
\* cache.get returned None; when that call fails, it is the last collaborator
\* call (no retry, no LLM call) and answer() raises the fetch's exception.
C7_WeatherFailurePropagates ==
    \A p \in Threads :
        /\ Cardinality(At(log[p], "weather.fetch")) <= 1
        /\ ( Ended(p) /\ \E i \in At(log[p], "cache.get") : log[p][i].ret = None )
           => Cardinality(At(log[p], "weather.fetch")) = 1
        /\ \A i \in At(log[p], "weather.fetch") :
              WeatherFailure(log[p][i].resp) =>
                  /\ i = Len(log[p])
                  /\ At(log[p], "llm.chat") = {} /\ At(log[p], "llm.post") = {}
                  /\ Ended(p)
                  /\ result[p] =
                       Raised(IF log[p][i].resp.kind \in {"json", "BadJSON"}
                              THEN "ValueError" ELSE log[p][i].resp.kind, "weather")

\* The weather endpoint answered 500 and answer() raised that HTTPError.
C7_Witness ==
    /\ Ended(1)
    /\ \E i \in At(log[1], "weather.fetch") : log[1][i].resp.kind = "HTTPError"
    /\ result[1] = Raised("HTTPError", "weather")

\* C8: a non-success status on LLM attempt n ends the chat at once: the
\* attempt is the last collaborator call (no sleep, no attempt n + 1) and
\* answer() raises the HTTPError.
C8_StatusNotRetried ==
    \A p \in Threads : \A i \in At(log[p], "llm.post") :
        log[p][i].resp.kind = "HTTPError" =>
            /\ i = Len(log[p])
            /\ Ended(p)
            /\ result[p] = Raised("HTTPError", "llm")

\* The third attempt, after two transient failures, got a non-success status.
C8_Witness ==
    /\ Ended(1)
    /\ \E i \in At(log[1], "llm.post") :
          log[1][i].resp.kind = "HTTPError" /\ log[1][i].n = 3
    /\ result[1] = Raised("HTTPError", "llm")

\* Thread p is inside InMemoryTTLCache.get (between the lookup of line 93 and
\* the return) or inside InMemoryTTLCache.set (line 108, before the store).
InCache(p) == th[p].pc \in {"get_check", "set_store"}

\* C9: the calls of get and set by simultaneous answer() invocations exclude
\* one another, every entry of the store is a (timestamp, value) pair written
\* whole by one set call, and every get returns None or a value some set
\* wrote for the same key.
C9_MutualExclusion ==
    /\ \A p, q \in Threads : p # q => ~(InCache(p) /\ InCache(q))
    /\ \A k \in DOMAIN store :
          \E p \in Threads : \E i \in At(log[p], "cache.set") :
              log[p][i].key = k /\ store[k] = <<log[p][i].t, log[p][i].val>>
    /\ \A p \in Threads : \A i \in At(log[p], "cache.get") :
          \/ log[p][i].ret = None
          \/ \E q \in Threads : \E j \in At(log[q], "cache.set") :
                log[q][j].key = log[p][i].key /\ log[q][j].val = log[p][i].ret

\* C10: a successful answer() stores its text under the key
\* "<trimmed city>:<units>", and a cache.get of the next call, when that call
\* has the same (city, units) after trimming and reads the clock within the
\* TTL, looks up that same key and reads the entry the first call wrote.
C10_SameKey ==
    \A p \in Threads :
        /\ \A i \in At(log[p], "cache.set") :
              /\ log[p][i].key = Trimmed(arg[p].city.v) \o <<":">> \o arg[p].units
              /\ Ended(p) =>
                    /\ result[p].kind = "return"
                    /\ log[p][i].key \in DOMAIN store
                    /\ store[log[p][i].key] = <<log[p][i].t, Str(result[p].v)>>
        /\ \A i \in At(log[p], "cache.get") :
              ( /\ prev[p].kind = "stored"
                /\ SameRequest(prev[p].arg, arg[p])
                /\ log[p][i].t - prev[p].t < cfg.ttl_s )
              => /\ log[p][i].hit = Tuple(<<prev[p].t, Str(prev[p].text)>>)
                 /\ log[p][i].ret = Str(prev[p].text)

\* The same city, written with and without surrounding whitespace, in two
\* successive calls: the second read the entry of the first.
C10_Witness ==
    /\ prev[1].kind = "stored"
    /\ prev[1].arg.city # arg[1].city
    /\ SameRequest(prev[1].arg, arg[1])
    /\ \E i \in At(log[1], "cache.get") :
          log[1][i].ret = Str(prev[1].text) /\ log[1][i].t > prev[1].t

\* C11: set overwrites unconditionally. After set(k, v1) at t1 and then
\* set(k, v2) at t2 >= t1, the entry of k is (t2, v2), whether or not the
\* earlier entry had expired, and a get(k) at a time in [t2, t2 + ttl)
\* returns v2, also when that time is >= t1 + ttl.
C11_SetOverwrites ==
    \A k \in DOMAIN probe.sets :
        LET s == probe.sets[k]
        IN  s.before.t >= 0 =>
              /\ s.t >= s.before.t
              /\ k \in DOMAIN store /\ store[k] = <<s.t, s.val>>
              /\ ( probe.last.op = "get" /\ probe.last.key = k
                   /\ probe.last.t < s.t + cfg.ttl_s )
                 => probe.last.ret = s.val

\* v2 replaced a different, expired v1 and was read at a time >= t1 + ttl.
C11_Witness ==
    /\ probe.last.op = "get" /\ probe.last.key \in DOMAIN probe.sets
    /\ LET s == probe.sets[probe.last.key]
       IN  /\ s.before.t >= 0
           /\ s.before.val # s.val /\ s.before.val # None /\ s.val # None
           /\ s.t >= s.before.t + cfg.ttl_s
           /\ probe.last.t >= s.t
           /\ probe.last.ret = s.val

\* C12: handler() maps every outcome of answer() to a response. A returned
\* text gives status 200 with that text as the body; an exception raised by
\* answer() gives status 502 with the body "Upstream service error", which
\* does not name the cause; once answer() has ended the handler can return,
\* and it raises only before answer() is called.
C12_HandlerMapping ==
    \A p \in Threads :
        LET r == response[p]
        IN  /\ r.kind = "return" =>
                 /\ Ended(p)
                 /\ result[p].kind = "return" =>
                      r.v = [status |-> 200, body |-> result[p].v]
                 /\ result[p].kind = "raise" =>
                      /\ r.v = [status |-> 502, body |-> UpstreamError]
                      /\ r.v.body # <<result[p].exc.type>>
            /\ r.kind = "raise" => result[p] = NoResult
            /\ (r.kind = "calling" /\ Ended(p)) => ENABLED HandlerReturn(p)

\* answer() raised in the LLM call and the handler answered 502.
C12_Witness ==
    /\ response[1].kind = "return"
    /\ result[1].kind = "raise" /\ result[1].exc.from = "llm"
    /\ response[1].v.status = 502

\* C13: in an answer() with a non-empty city that misses the cache, the
\* collaborator calls are made in the order cache.get, weather fetch, LLM
\* chat, cache.set, each at most once and each only after the one before it
\* succeeded (the get missed, the fetch returned a record, the last LLM
\* request returned a text); the call returns a text only after cache.set,
\* and the text stored, under the key looked up, is the text returned.
C13_FixedOrder ==
    \A p \in Threads :
        LET l == log[p]
        IN  /\ \A op \in {"cache.get", "weather.fetch", "llm.chat", "cache.set"} :
                   Cardinality(At(l, op)) <= 1
            /\ l # << >> => l[1].op = "cache.get"
            /\ \A i \in At(l, "weather.fetch") : i = 2 /\ ~Truthy(l[1].ret)
            /\ \A i \in At(l, "llm.chat") :
                   i = 3 /\ l[2].op = "weather.fetch" /\ l[2].out = "ok"
            /\ \A i \in At(l, "llm.post") \cup At(l, "sleep") :
                   i > 3 /\ l[3].op = "llm.chat"
            /\ \A i \in At(l, "cache.set") :
                   /\ i = Len(l) /\ i > 4 /\ l[3].op = "llm.chat"
                   /\ l[i - 1].op = "llm.post" /\ l[i - 1].out = "ok"
                   /\ l[i].key = l[1].key
                   /\ Ended(p) /\ result[p] = Return(l[i].val.v)
                   /\ l[i].key \in DOMAIN store /\ store[l[i].key][2] = l[i].val
            /\ ( Ended(p) /\ result[p].kind = "return" /\ l # << >>
                 /\ ~Truthy(l[1].ret) )
               => At(l, "cache.set") # {}

\* A call found an expired entry, fetched, generated and stored a new text.
C13_Witness ==
    /\ Ended(1) /\ result[1].kind = "return"
    /\ Len(log[1]) = 5
    /\ log[1][1].hit # None /\ log[1][1].ret = None
    /\ log[1][5].op = "cache.set" /\ log[1][5].val.v # <<>>

\* The place in a call's log of LLM request n and of the sleep after it: the
\* log begins with cache.get, weather.fetch and llm.chat.
PostAt(n) == 2 * n + 2

SleepAt(n) == 2 * n + 3

\* C14: when LLM request k returns a valid payload, 1 <= k <= max_retries
\* and the requests before it are exactly requests 1..k-1, each failed by a
\* timeout or a connection error and each followed, before the next request,
\* by one sleep of backoff_s * n: k requests and k - 1 sleeps; chat() then
\* returns the content of request k. A transient failure of request n
\* leads to that sleep, and the sleep after request n < max_retries to
\* request n + 1.
C14_RetryThenSuccess ==
    \A p \in Threads :
        LET l == log[p]
        IN  /\ \A i \in At(l, "llm.post") :
                   l[i].out = "ok" =>
                     LET k == l[i].n
                         content == l[i].resp.data.v.choices.v[1].v.message.v.content
                     IN  /\ 1 <= k /\ k <= cfg.max_retries
                         /\ i = PostAt(k)
                         /\ Cardinality({j \in At(l, "llm.post") : j <= i}) = k
                         /\ Cardinality(At(l, "sleep")) = k - 1
                         /\ \A n \in 1..(k - 1) :
                                /\ l[PostAt(n)].op = "llm.post"
                                /\ l[PostAt(n)].n = n
                                /\ l[PostAt(n)].out \in {"Timeout", "ConnectionError"}
                                /\ l[SleepAt(n)].op = "sleep"
                                /\ l[SleepAt(n)].n = n
                                /\ l[SleepAt(n)].d = cfg.backoff_s * n
                         /\ content.t = "str" =>
                                IF Len(l) > i
                                THEN l[i + 1].op = "cache.set" /\ l[i + 1].val = content
                                ELSE /\ th[p].pc \in {"set", "set_store"}
                                     /\ th[p].text = content.v
            /\ ( l # << >> /\ l[Len(l)].op = "llm.post"
                 /\ l[Len(l)].out \in {"Timeout", "ConnectionError"} )
               => th[p].pc = "backoff" /\ th[p].attempt = l[Len(l)].n
            /\ ( l # << >> /\ l[Len(l)].op = "sleep" )
               => \/ th[p].pc = "chat" /\ th[p].attempt = l[Len(l)].n + 1
                  \/ /\ l[Len(l)].n >= cfg.max_retries
                     /\ Ended(p) /\ result[p] = Raised("RuntimeError", "llm")

\* The third request succeeded after two transient failures.
C14_Witness ==
    \E i \in At(log[1], "llm.post") :
        /\ log[1][i].out = "ok" /\ log[1][i].n = 3
        /\ Ended(1) /\ result[1].kind = "return" /\ result[1].v # <<>>

\* C15, as claimed: a non-success status on LLM request n < max_retries is
\* transient (the request is followed by a sleep and by request n + 1),
\* while a non-success status of the weather fetch ends the call.
C15_StatusIsTransient ==
    \A p \in Threads :
        /\ \A i \in At(log[p], "llm.post") :
               ( log[p][i].resp.kind = "HTTPError"
                 /\ log[p][i].n < cfg.max_retries )
               => IF i = Len(log[p])
                  THEN th[p].pc = "backoff"
                  ELSE log[p][i + 1].op = "sleep"
        /\ \A i \in At(log[p], "weather.fetch") :
               log[p][i].resp.kind = "HTTPError" =>
                   i = Len(log[p]) /\ result[p] = Raised("HTTPError", "weather")

\* C15, amended: a non-success status is fatal in the LLM's retry loop as it
\* is in the weather fetch. On LLM request n, also when n < max_retries, it
\* is followed by no sleep and no further request and answer() raises the
\* HTTPError; the weather fetch's non-success status ends the call in the
\* same way. Only a timeout or a connection error is followed by a sleep.
C15_StatusIsFatal ==
    \A p \in Threads :
        LET l == log[p]
        IN  /\ \A i \in At(l, "llm.post") :
                   /\ l[i].resp.kind = "HTTPError" =>
                        /\ l[i].out = "HTTPError"
                        /\ i = Len(l) /\ th[p].pc = "idle"
                        /\ result[p] = Raised("HTTPError", "llm")
                        /\ Cardinality(At(l, "sleep")) = l[i].n - 1
                   /\ l[i].resp.kind \in {"Timeout", "ConnectionError"} =>
                        IF i = Len(l)
                        THEN th[p].pc = "backoff"
                        ELSE l[i + 1].op = "sleep" /\ l[i + 1].n = l[i].n
            /\ \A i \in At(l, "sleep") :
                   /\ l[i - 1].op = "llm.post"
                   /\ l[i - 1].resp.kind \in {"Timeout", "ConnectionError"}
            /\ \A i \in At(l, "weather.fetch") :
                   l[i].resp.kind = "HTTPError" =>
                       /\ i = Len(l) /\ th[p].pc = "idle"
                       /\ result[p] = Raised("HTTPError", "weather")

\* The first of three allowed requests got a non-success status.
C15_Witness ==
    /\ cfg.max_retries = 3
    /\ Ended(1) /\ result[1] = Raised("HTTPError", "llm")
    /\ Len(log[1]) = 4
    /\ log[1][4].op = "llm.post" /\ log[1][4].n = 1

\* The decoded body is an object whose `temp` and `desc` are present and
\* not null.
CompleteRecord(d) ==
    /\ d.t = "dict"
    /\ "temp" \in DOMAIN d.v /\ d.v["temp"] # None
    /\ "desc" \in DOMAIN d.v /\ d.v["desc"] # None

\* C16: fetch() returns a record only for a body that is an object with
\* `temp` and `desc` present and not null, and fails with a ValueError for
\* any other body; so a prompt is built, and an answer cached, only from a
\* record with both fields present and not null.
C16_RecordComplete ==
    \A p \in Threads :
        LET l == log[p]
        IN  /\ \A i \in At(l, "weather.fetch") :
                   l[i].resp.kind = "json" =>
                       IF CompleteRecord(l[i].resp.data)
                       THEN l[i].out = "ok"
                       ELSE /\ l[i].out = "ValueError"
                            /\ i = Len(l)
                            /\ result[p] = Raised("ValueError", "weather")
            /\ \A i \in At(l, "llm.chat") \cup At(l, "cache.set") :
                   /\ l[2].op = "weather.fetch"
                   /\ l[2].resp.kind = "json"
                   /\ CompleteRecord(l[2].resp.data)

\* Thread p's call missed the cache and made its own weather call and its
\* own LLM request.
OwnUpstreamCalls(p) ==
    /\ Len(log[p]) >= 4
    /\ ~Truthy(log[p][1].ret)
    /\ log[p][2].op = "weather.fetch"
    /\ log[p][4].op = "llm.post"

\* Every entry of the store holds a text that an LLM request of a call for
\* the entry's key returned, stored by that call's cache.set.
EntriesAreLLMTexts ==
    \A k \in DOMAIN store :
        \E p \in Threads : \E i \in At(log[p], "cache.set") :
            /\ log[p][i].key = k /\ log[p][1].key = k
            /\ log[p][i].val = store[k][2]
            /\ log[p][i - 1].op = "llm.post" /\ log[p][i - 1].out = "ok"
            /\ store[k][2] =
                 Str(PyStr(log[p][i - 1].resp.data.v.choices.v[1].v.message.v.content))

\* A step in which thread p's cache.set stores.
SetStores(p) == th[p].pc = "set_store" /\ th'[p].pc = "idle"

\* C17: nothing keeps two simultaneous answer() calls for one key from both
\* missing the cache and each making its own weather call and LLM call.
\* Every cache.set that executes replaces the key's entry by its caller's
\* text and nothing else changes the store, so the entry holds the text of
\* the call whose cache.set executed last; it is always a text that an LLM
\* request of a call for that key returned.
C17_NoSingleFlight ==
    /\ [](EntriesAreLLMTexts)
    /\ [][\A p \in Threads :
             SetStores(p) =>
                 /\ store' = [x \in DOMAIN store \cup {th[p].key} |->
                                IF x = th[p].key
                                THEN <<th[p].ts, Str(th[p].text)>>
                                ELSE store[x]]
                 /\ result'[p] = Return(th[p].text)]_vars
    /\ [][(store' # store) => (\E p \in Threads : SetStores(p))]_vars

\* Both calls, for one key, missed and made their own upstream calls; their
\* texts differ, and the entry holds the text of thread 1 although thread 2
\* read the clock for its entry later.
C17_Witness ==
    /\ Ended(1) /\ Ended(2)
    /\ OwnUpstreamCalls(1) /\ OwnUpstreamCalls(2)
    /\ log[1][1].key = log[2][1].key
    /\ result[1].kind = "return" /\ result[2].kind = "return"
    /\ result[1].v # result[2].v
    /\ store[log[1][1].key][2] = Str(result[1].v)
    /\ log[1][Len(log[1])].t < log[2][Len(log[2])].t

\* The key of the arguments `a`: "<trimmed city>:<units>".
KeyOf(a) == Trimmed(a.city.v) \o <<":">> \o a.units

\* C18: two requests with different (trimmed city, units) pairs never share
\* a cache key, so a call that hits the entry the call before it stored has
\* the same trimmed city and the same units as that call: answer() never
\* returns a text generated for another (city, units) pair, whatever the
\* strings hold, the separator ':' included.
C18_KeyInjective ==
    \A p \in Threads :
        ( /\ Ended(p) /\ result[p].kind = "return"
          /\ prev[p].kind = "stored"
          /\ ~IsBlank(arg[p].city)
          /\ Len(log[p]) = 1
          /\ log[p][1].key = KeyOf(prev[p].arg)
          /\ log[p][1].ret = Str(prev[p].text) )
        => /\ Trimmed(arg[p].city.v) = Trimmed(prev[p].arg.city.v)
           /\ arg[p].units = prev[p].arg.units

\* C19: reads never change the cache. While no cache.set of the call has
\* run, a cache hit included, the store is as it was when the call began: no
\* eviction, no new timestamp. So a hit does not extend an entry's lifetime:
\* a get at or after the entry's timestamp + ttl returns None, whatever was
\* read before, and the call goes on to the weather fetch and the LLM and
\* stores the new text with the clock time of its own set. A call changes
\* the entry of no key but its own.
C19_ReadsLeaveStore ==
    \A p \in Threads :
        LET l == log[p]
        IN  /\ ( (th[p].pc # "idle" \/ Ended(p)) /\ At(l, "cache.set") = {} )
               => store = storeAtCall[p]
            /\ (th[p].pc # "idle" \/ Ended(p)) =>
                  \A k \in DOMAIN storeAtCall[p] \cup DOMAIN store :
                      (l = << >> \/ k # l[1].key) =>
                          /\ k \in DOMAIN storeAtCall[p] /\ k \in DOMAIN store
                          /\ store[k] = storeAtCall[p][k]
            /\ \A i \in At(l, "cache.get") :
                  ( l[i].hit # None /\ l[i].t >= l[i].hit.v[1] + cfg.ttl_s ) =>
                      /\ l[i].ret = None
                      /\ l[i].hit = Tuple(storeAtCall[p][l[i].key])
                      /\ IF Len(l) = 1 THEN th[p].pc = "fetch"
                                       ELSE l[2].op = "weather.fetch"
                      /\ (Ended(p) /\ result[p].kind = "return") =>
                            /\ l[3].op = "llm.chat"
                            /\ l[Len(l)].op = "cache.set"
                            /\ l[Len(l)].t >= l[i].t
                            /\ store[l[i].key] = <<l[Len(l)].t, Str(result[p].v)>>

\* After a call stored a text and the next call read it from the cache, a
\* third call for the key found the entry expired, with its first timestamp,
\* and stored a new text with a later one.
C19_Witness ==
    /\ Ended(1) /\ result[1].kind = "return"
    /\ prev[1].kind = "hit" /\ SameRequest(prev[1].arg, arg[1])
    /\ Len(log[1]) = 5
    /\ log[1][1].hit = Tuple(<<prev[1].t, Str(prev[1].text)>>)
    /\ log[1][1].ret = None
    /\ log[1][5].op = "cache.set" /\ log[1][5].t >= prev[1].t + cfg.ttl_s

\* Thread p is inside chat().
InChat(p) == th[p].pc \in {"chat", "backoff"}

\* The number of requests chat() may make: max(max_retries, 0).
MaxAttempts == IF cfg.max_retries > 0 THEN cfg.max_retries ELSE 0

\* The positions in log l of the LLM requests.
Posts(l) == At(l, "llm.post")

\* Thread p's chat() is over, with the text of its last request.
ChatReturned(p) ==
    /\ Posts(log[p]) # {}
    /\ \E i \in Posts(log[p]) :
          /\ \A j \in Posts(log[p]) : j <= i
          /\ log[p][i].out = "ok"
          /\ \/ th[p].pc \in {"set", "set_store"}
             \/ Ended(p) /\ result[p].kind = "return"

\* Thread p's chat() is over, with the error of its last request, which is
\* neither a timeout nor a connection error.
ChatFailed(p) ==
    /\ Ended(p) /\ result[p].kind = "raise" /\ result[p].exc.from = "llm"
    /\ result[p].exc.type # "RuntimeError"
    /\ log[p][Len(log[p])].op = "llm.post"
    /\ log[p][Len(log[p])].out = result[p].exc.type
    /\ result[p].exc.type \notin {"ok", "Timeout", "ConnectionError"}

\* Thread p's chat() is over, with the RuntimeError of line 175.
ChatGaveUp(p) ==
    /\ Ended(p) /\ result[p] = Raised("RuntimeError", "llm")
    /\ Cardinality(Posts(log[p])) = MaxAttempts
    /\ log[p][Len(log[p])].op \in {"llm.chat", "sleep"}

\* C20: every chat() ends, whatever the endpoint answers, after at most
\* max(max_retries, 0) requests, in exactly one of three ways: a text is
\* returned, an error that is not transient is propagated, or the
\* RuntimeError of exhausted retries is raised. The requests are numbered
\* 1, 2, 3, ... in the order they are made, and with max_retries <= 0 chat()
\* makes no request and no sleep before the RuntimeError.
C20_ChatTerminates ==
    /\ [](\A p \in Threads :
            LET l == log[p]
            IN  /\ Cardinality(Posts(l)) <= MaxAttempts
                /\ \A i \in Posts(l) :
                       l[i].n = Cardinality({j \in Posts(l) : j <= i})
                /\ ( At(l, "llm.chat") # {} /\ ~InChat(p) ) =>
                       /\ ChatReturned(p) \/ ChatFailed(p) \/ ChatGaveUp(p)
                       /\ ~(ChatReturned(p) /\ ChatFailed(p))
                       /\ ~(ChatReturned(p) /\ ChatGaveUp(p))
                       /\ ~(ChatFailed(p) /\ ChatGaveUp(p))
                /\ ( At(l, "llm.chat") # {} /\ cfg.max_retries <= 0 ) =>
                       /\ Posts(l) = {} /\ At(l, "sleep") = {}
                       /\ th[p].pc = "chat" \/ ChatGaveUp(p))
    /\ \A p \in Threads : InChat(p) ~> ~InChat(p)

\* With max_retries = -1 the call ended with the RuntimeError right after
\* the weather fetch.
C20_Witness ==
    /\ cfg.max_retries < 0
    /\ Ended(1) /\ result[1] = Raised("RuntimeError", "llm")
    /\ Len(log[1]) = 3 /\ log[1][3].op = "llm.chat"

====
